---- MODULE Spec2Model ----
(***************************************************************************)
(* Model of muellbot (src/müllbot.py): a Telegram bot that keeps one-shot  *)
(* reminder jobs in the job queue of python-telegram-bot 13 (APScheduler). *)
(*                                                                         *)
(* Strings are sequences of one-character strings, so that parsing,        *)
(* formatting and concatenation are computed as the code computes them.    *)
(* Dates are records [year, month, day]; instants are proleptic Gregorian  *)
(* ordinals of a day (every datetime of the program is a midnight).        *)
(***************************************************************************)
EXTENDS Integers, Sequences, FiniteSets, TLC

VARIABLES
    now,        \* the clock: ordinal of the current day
    late,       \* FALSE at midnight of `now` (within the scheduler's misfire grace), TRUE later that day
    jobs,       \* context.job_queue.jobs(): the scheduler's jobs, in run-time order
    pc,         \* position of the dispatcher thread inside the running handler
    upd,        \* the update being handled (or the last one handled)
    found,      \* current_jobs of remove_job_if_exists: how many jobs the last lookup returned
    reply,      \* the last reply_text of a handler ("none": the handler raised)
    listing,    \* the text lines of the last /list reply
    msg,        \* the last notification send_message delivered
    probe,      \* history: the job name whose history is recorded (NoName: none)
    hist        \* history of the job name `probe`

vars == <<now, late, jobs, pc, upd, found, reply, listing, msg, probe, hist>>

----
\* Characters and decimal numbers

Digits == <<"0", "1", "2", "3", "4", "5", "6", "7", "8", "9">>

IsDigit(c) == \E i \in 1..10 : Digits[i] = c

DigitVal(c) == (CHOOSE i \in 1..10 : Digits[i] = c) - 1

\* int() of a field matched by the format's regular expression (a leading blank is skipped)
RECURSIVE IntOf(_)
IntOf(s) ==
    IF s = <<>> THEN 0
    ELSE IF Head(s) = " " THEN IntOf(Tail(s))
    ELSE 10 * IntOf(SubSeq(s, 1, Len(s) - 1)) + DigitVal(s[Len(s)])

\* str() of a non-negative integer
RECURSIVE StrNat(_)
StrNat(n) == IF n < 10 THEN <<Digits[n + 1]>> ELSE StrNat(n \div 10) \o <<Digits[(n % 10) + 1]>>

\* str(chat_id)
StrInt(n) == IF n < 0 THEN <<"-">> \o StrNat(-n) ELSE StrNat(n)

\* zero-padded decimal of width w (%02d, %04d)
RECURSIVE Pad(_, _)
Pad(s, w) == IF Len(s) >= w THEN s ELSE Pad(<<"0">> \o s, w)

----
\* Calendar (datetime)

IsLeap(y) == (y % 4 = 0) /\ ((y % 100 # 0) \/ (y % 400 = 0))

DaysInMonth(y, m) ==
    IF m = 2 THEN (IF IsLeap(y) THEN 29 ELSE 28)
    ELSE IF m \in {4, 6, 9, 11} THEN 30 ELSE 31

RECURSIVE DaysBeforeMonth(_, _)
DaysBeforeMonth(y, m) == IF m = 1 THEN 0 ELSE DaysBeforeMonth(y, m - 1) + DaysInMonth(y, m - 1)

DaysBeforeYear(y) == (y - 1) * 365 + ((y - 1) \div 4) - ((y - 1) \div 100) + ((y - 1) \div 400)

\* datetime.toordinal(): the instant of a date's midnight
ToOrdinal(d) == DaysBeforeYear(d.year) + DaysBeforeMonth(d.year, d.month) + d.day

----
\* datetime.strptime(s, "%d.%m.%Y")

\* %d: 3[0-1] | [1-2]\d | 0[1-9] | [1-9] | " "[1-9]
MatchesDay(f) ==
    \/ /\ Len(f) = 2
       /\ \/ f[1] = "3" /\ f[2] \in {"0", "1"}
          \/ f[1] \in {"1", "2"} /\ IsDigit(f[2])
          \/ f[1] \in {"0", " "} /\ IsDigit(f[2]) /\ f[2] # "0"
    \/ Len(f) = 1 /\ IsDigit(f[1]) /\ f[1] # "0"

\* %m: 1[0-2] | 0[1-9] | [1-9]
MatchesMonth(f) ==
    \/ /\ Len(f) = 2
       /\ \/ f[1] = "1" /\ f[2] \in {"0", "1", "2"}
          \/ f[1] = "0" /\ IsDigit(f[2]) /\ f[2] # "0"
    \/ Len(f) = 1 /\ IsDigit(f[1]) /\ f[1] # "0"

\* %Y: \d\d\d\d
MatchesYear(f) == Len(f) = 4 /\ \A i \in 1..4 : IsDigit(f[i])

Dots(s) == {i \in 1..Len(s) : s[i] = "."}

\* The fields of s when the whole of s matches %d\.%m\.%Y, else <<>>: no field
\* holds a dot, so the two dots of a match are the only dots of s.
Fields(s) ==
    IF Cardinality(Dots(s)) # 2 THEN <<>>
    ELSE LET p == CHOOSE i \in Dots(s) : \A j \in Dots(s) : i <= j
             q == CHOOSE i \in Dots(s) : \A j \in Dots(s) : j <= i
         IN  <<SubSeq(s, 1, p - 1), SubSeq(s, p + 1, q - 1), SubSeq(s, q + 1, Len(s))>>

\* faulty variant: the matched numbers are not checked against the calendar
StrptimeFailsWithoutCalendar(s) ==
    LET f == Fields(s) IN
    \/ f = <<>>
    \/ ~MatchesDay(f[1]) \/ ~MatchesMonth(f[2]) \/ ~MatchesYear(f[3])

\* TRUE when strptime raises ValueError: the string does not match the format,
\* or the matched numbers are no date (year 0, day past the month's end)
StrptimeFails(s) ==
    LET f == Fields(s) IN
    \/ f = <<>>
    \/ ~MatchesDay(f[1]) \/ ~MatchesMonth(f[2]) \/ ~MatchesYear(f[3])
    \/ IntOf(f[3]) < 1
    \/ IntOf(f[1]) > DaysInMonth(IntOf(f[3]), IntOf(f[2]))

\* the datetime strptime returns (at midnight)
Strptime(s) ==
    LET f == Fields(s) IN [year |-> IntOf(f[3]), month |-> IntOf(f[2]), day |-> IntOf(f[1])]

\* str(due) of a midnight datetime: "YYYY-MM-DD 00:00:00"
StrDatetime(d) ==
    Pad(StrNat(d.year), 4) \o <<"-">> \o Pad(StrNat(d.month), 2) \o <<"-">> \o Pad(StrNat(d.day), 2)
        \o <<" ", "0", "0", ":", "0", "0", ":", "0", "0">>

\* due.strftime("%d\.%m\.%Y")
Strftime(d) ==
    Pad(StrNat(d.day), 2) \o <<"\\", ".">> \o Pad(StrNat(d.month), 2) \o <<"\\", ".">>
        \o Pad(StrNat(d.year), 4)

----
\* Bounds of the model and the inputs drawn by the handlers

MaxJobs == 2      \* /add is not taken while this many jobs are pending
MaxDays == 1      \* the clock stops this many days after StartDay

StartDay == ToOrdinal([year |-> 2025, month |-> 12, day |-> 30])

D0 == <<"3", "1", ".", "1", "2", ".", "2", "0", "2", "5">>
D1 == <<"0", "1", ".", "0", "1", ".", "2", "0", "2", "6">>
D1u == <<"1", ".", "1", ".", "2", "0", "2", "6">>
DBadFormat == <<"2", "0", "2", "6", "-", "0", "1", "-", "0", "1">>
DBadDay == <<"3", "1", ".", "0", "2", ".", "2", "0", "2", "6">>

bio == <<"b", "i", "o">>
rest == <<"r", "e", "s", "t">>
papier == <<"p", "a", "p", "i", "e", "r">>
plastik == <<"p", "l", "a", "s", "t", "i", "k">>
Bio == <<"B", "i", "o">>

\* chat_id and context.args of the /add and /remove commands tried
Requests ==
    { <<1, <<D1, bio>>>>, <<1, <<D1u, bio>>>>, <<1, <<D0, bio>>>>, <<1, <<D1, rest>>>>,
      <<12, <<D1, bio>>>>,
      <<1, <<DBadFormat, bio>>>>, <<1, <<DBadDay, bio>>>>, <<1, <<D1, Bio>>>>, <<1, <<D1>>>> }

Updates ==
    {[cmd |-> c, chat_id |-> r[1], args |-> r[2]] : c \in {"add", "remove"}, r \in Requests}
        \cup {[cmd |-> "list", chat_id |-> c, args |-> <<>>] : c \in {1, 12}}

----
\* The program

trashtypes == {bio, rest, papier, plastik}

\* faulty variant: the chat is left out of the job name
build_job_id_without_chat(chat_id, due, trash_type) == StrDatetime(due) \o trash_type

\* faulty variant: the trash type is left out of the name
build_job_id_without_type(chat_id, due, trash_type) == StrInt(chat_id) \o StrDatetime(due)

build_job_id(chat_id, due, trash_type) == StrInt(chat_id) \o StrDatetime(due) \o trash_type

\* faulty variant: the trash type is not checked
RejectionWithoutTypeCheck(args) ==
    IF Len(args) # 2 THEN "wrong_input"
    ELSE IF StrptimeFails(args[1]) THEN "wrong_date"
    ELSE ""

\* the checks of add and remove before they touch the job queue: the reply of
\* the failing check, or "" when all pass
Rejection(args) ==
    IF Len(args) # 2 THEN "wrong_input"
    ELSE IF StrptimeFails(args[1]) THEN "wrong_date"
    ELSE IF args[2] \notin trashtypes THEN "invalid_type"
    ELSE ""

\* the locals of add and remove once the checks passed
Due(u) == Strptime(u.args[1])
TrashType(u) == u.args[2]
JobId(u) == build_job_id(u.chat_id, Due(u), TrashType(u))

\* faulty variant: the alarm is set on the due date itself
AlarmDueSameDay(due) == ToOrdinal(due)

\* alarm_due = due - timedelta(days=1)
AlarmDue(due) == ToOrdinal(due) - 1

\* context.job_queue.get_jobs_by_name(name): the positions of the jobs so named
JobsByName(js, name) == {i \in 1..Len(js) : js[i].name = name}

\* faulty variant: the jobs found are not removed
ScheduleRemovalSkipped(js, name) == js

\* faulty variant: the jobs of every other name are removed
RECURSIVE ScheduleRemovalOfOthers(_, _)
ScheduleRemovalOfOthers(js, name) ==
    IF js = <<>> THEN <<>>
    ELSE IF Head(js).name # name THEN ScheduleRemovalOfOthers(Tail(js), name)
    ELSE <<Head(js)>> \o ScheduleRemovalOfOthers(Tail(js), name)

\* job.schedule_removal() on every job of that name
RECURSIVE ScheduleRemoval(_, _)
ScheduleRemoval(js, name) ==
    IF js = <<>> THEN <<>>
    ELSE IF Head(js).name = name THEN ScheduleRemoval(Tail(js), name)
    ELSE <<Head(js)>> \o ScheduleRemoval(Tail(js), name)

\* the job run_once creates
NewJob(u) ==
    [name |-> JobId(u), chat_id |-> u.chat_id, trash_type |-> TrashType(u),
     due |-> Due(u), run_at |-> AlarmDue(Due(u))]

\* the scheduler keeps its jobs in run-time order; jobs of equal run time are
\* in the order of their random job ids
InsertAt(js, p, j) == SubSeq(js, 1, p - 1) \o <<j>> \o SubSeq(js, p, Len(js))

\* faulty variant: the queue keeps the order in which the jobs were added
SlotsAtEnd(js, j) == {Len(js) + 1}

Slots(js, j) ==
    {p \in 1..(Len(js) + 1) :
        /\ \A i \in 1..(p - 1) : js[i].run_at <= j.run_at
        /\ \A i \in p..Len(js) : j.run_at <= js[i].run_at}

\* faulty variant: a job that was run stays in the queue
RemoveAtKept(js, i) == js

RemoveAt(js, i) == SubSeq(js, 1, i - 1) \o SubSeq(js, i + 1, Len(js))

\* faulty variant: the first job is left out of the list
ShowListWithoutFirst(js) ==
    [i \in 1..(Len(js) - 1) |-> [duedate |-> Strftime(js[i + 1].due), trash_type |-> js[i + 1].trash_type]]

\* the lines show_list builds from context.job_queue.jobs()
ShowList(js) ==
    [i \in 1..Len(js) |-> [duedate |-> Strftime(js[i].due), trash_type |-> js[i].trash_type]]

\* faulty variant: the message goes to the chat of the update handled last
NotificationToLastChat(j) == [chat_id |-> upd.chat_id, trash_type |-> j.trash_type]

\* the message alarm sends: the chat and the trash type named in the text
Notification(j) == [chat_id |-> j.chat_id, trash_type |-> j.trash_type]

----
\* What the handlers compute from an update, evaluated once per update

NoName == <<>>
NoUpdate == [cmd |-> "", chat_id |-> 0, args |-> <<>>]
NoMsg == [chat_id |-> 0, trash_type |-> <<>>]

Rejected == [u \in Updates \cup {NoUpdate} |-> IF u.cmd \in {"add", "remove"} THEN Rejection(u.args) ELSE "no_args"]

Accepted == {u \in Updates : Rejected[u] = ""}

Name == [u \in Updates \cup {NoUpdate} |-> IF u \in Accepted THEN JobId(u) ELSE NoName]

Scheduled == [u \in Accepted |-> NewJob(u)]

----
\* History of one job name

ProbeNames == {Name[u] : u \in Accepted}

NoHist == [added |-> FALSE, removed |-> FALSE, cancelled |-> FALSE, sent |-> 0]

\* add scheduled a job of that name
HistAdded(name) ==
    IF name = probe THEN [hist EXCEPT !.added = TRUE, !.cancelled = FALSE] ELSE hist

\* /remove removed the job of that name
HistRemoved(name) ==
    IF name = probe THEN [hist EXCEPT !.removed = TRUE, !.cancelled = TRUE] ELSE hist

\* alarm delivered the notification of the job of that name (2: more than once)
HistSent(name) ==
    IF name = probe THEN [hist EXCEPT !.sent = IF @ = 0 THEN 1 ELSE 2] ELSE hist

----
\* State and steps

InitProgram ==
    /\ now = StartDay
    /\ late = TRUE
    /\ jobs = <<>>
    /\ pc = "idle"
    /\ upd = NoUpdate
    /\ found = 0
    /\ reply = ""
    /\ listing = <<>>
    /\ msg = NoMsg
    /\ hist = NoHist

Init == InitProgram /\ probe = NoName

InitObserved == InitProgram /\ probe \in ProbeNames

\* add, up to the lookup of remove_job_if_exists
add_begin(u) ==
    /\ pc = "idle"
    /\ u.cmd = "add"
    /\ upd' = u
    /\ listing' = <<>>
    /\ IF Rejected[u] # ""
       THEN /\ reply' = Rejected[u]
            /\ found' = 0
            /\ pc' = "idle"
       ELSE /\ Len(jobs) < MaxJobs \/ JobsByName(jobs, Name[u]) # {}
            /\ reply' = ""
            /\ found' = Cardinality(JobsByName(jobs, Name[u]))
            /\ pc' = IF JobsByName(jobs, Name[u]) = {} THEN "add_reply" ELSE "add_removal"
    /\ UNCHANGED <<now, late, jobs, msg, probe, hist>>

\* add: the removal loop of remove_job_if_exists. job.remove() raises
\* JobLookupError when the job left the scheduler after the lookup.
add_remove_old ==
    /\ pc = "add_removal"
    /\ jobs' = ScheduleRemoval(jobs, Name[upd])
    /\ IF Cardinality(JobsByName(jobs, Name[upd])) < found
       THEN pc' = "idle" /\ reply' = "none"
       ELSE pc' = "add_reply" /\ reply' = reply
    /\ UNCHANGED <<now, late, upd, found, listing, msg, probe, hist>>

\* add: reply_text raises (the network call fails), the handler ends there
add_reply_failed ==
    /\ pc = "add_reply"
    /\ pc' = "idle"
    /\ reply' = "none"
    /\ UNCHANGED <<now, late, jobs, upd, found, listing, msg, probe, hist>>

\* add: reply_text, then run_once
add_run_once ==
    /\ pc = "add_reply"
    /\ \E p \in Slots(jobs, Scheduled[upd]) : jobs' = InsertAt(jobs, p, Scheduled[upd])
    /\ pc' = "idle"
    /\ reply' = "noted"
    /\ hist' = HistAdded(Name[upd])
    /\ UNCHANGED <<now, late, upd, found, listing, msg, probe>>

\* remove, up to the lookup of remove_job_if_exists
remove_begin(u) ==
    /\ pc = "idle"
    /\ u.cmd = "remove"
    /\ upd' = u
    /\ listing' = <<>>
    /\ IF Rejected[u] # ""
       THEN /\ reply' = Rejected[u]
            /\ found' = 0
            /\ pc' = "idle"
       ELSE IF JobsByName(jobs, Name[u]) = {}
       THEN /\ reply' = "not_removed"
            /\ found' = 0
            /\ pc' = "idle"
       ELSE /\ reply' = ""
            /\ found' = Cardinality(JobsByName(jobs, Name[u]))
            /\ pc' = "remove_removal"
    /\ UNCHANGED <<now, late, jobs, msg, probe, hist>>

\* remove: the removal loop of remove_job_if_exists, then the reply
remove_job ==
    /\ pc = "remove_removal"
    /\ jobs' = ScheduleRemoval(jobs, Name[upd])
    /\ pc' = "idle"
    /\ IF Cardinality(JobsByName(jobs, Name[upd])) < found
       THEN reply' = "none" /\ hist' = hist
       ELSE reply' = "removed" /\ hist' = HistRemoved(Name[upd])
    /\ UNCHANGED <<now, late, upd, found, listing, msg, probe>>

show_list(u) ==
    /\ pc = "idle"
    /\ u.cmd = "list"
    /\ upd' = u
    /\ listing' = ShowList(jobs)
    /\ reply' = "list"
    /\ found' = 0
    /\ UNCHANGED <<now, late, jobs, pc, msg, probe, hist>>

\* The scheduler runs a job whose run time has come, and drops it (a one-shot
\* job has no next run time). The callback is called only within the misfire
\* grace time (one second) of the run time.
InGrace(j) == j.run_at = now /\ ~late

\* alarm: send_message delivers the notification
alarm(i) ==
    /\ i \in 1..Len(jobs)
    /\ InGrace(jobs[i])
    /\ jobs' = RemoveAt(jobs, i)
    /\ msg' = Notification(jobs[i])
    /\ hist' = HistSent(jobs[i].name)
    /\ UNCHANGED <<now, late, pc, upd, found, reply, listing, probe>>

\* alarm: send_message raises; the job queue logs the error
alarm_failed(i) ==
    /\ i \in 1..Len(jobs)
    /\ InGrace(jobs[i])
    /\ jobs' = RemoveAt(jobs, i)
    /\ UNCHANGED <<now, late, pc, upd, found, reply, listing, msg, probe, hist>>

\* the run time was missed by more than the grace time: alarm is not called
job_missed(i) ==
    /\ i \in 1..Len(jobs)
    /\ jobs[i].run_at <= now
    /\ ~InGrace(jobs[i])
    /\ jobs' = RemoveAt(jobs, i)
    /\ UNCHANGED <<now, late, pc, upd, found, reply, listing, msg, probe, hist>>

\* the grace time after midnight passes, once the scheduler has run what was due
Later ==
    /\ ~late
    /\ \A i \in 1..Len(jobs) : jobs[i].run_at > now
    /\ late' = TRUE
    /\ UNCHANGED <<now, jobs, pc, upd, found, reply, listing, msg, probe, hist>>

\* midnight
Tick ==
    /\ late
    /\ now < StartDay + MaxDays
    /\ now' = now + 1
    /\ late' = FALSE
    /\ UNCHANGED <<jobs, pc, upd, found, reply, listing, msg, probe, hist>>

\* The process stops and main runs again: the Updater builds an empty job
\* queue (PicklePersistence stores user, chat and bot data, no jobs).
main ==
    /\ jobs' = <<>>
    /\ pc' = "idle"
    /\ found' = 0
    /\ reply' = IF pc = "idle" THEN reply ELSE "none"
    /\ UNCHANGED <<now, late, upd, listing, msg, probe, hist>>

Next ==
    \/ \E u \in Updates : add_begin(u)
    \/ add_remove_old
    \/ add_reply_failed
    \/ add_run_once
    \/ \E u \in Updates : remove_begin(u)
    \/ remove_job
    \/ \E u \in Updates : show_list(u)
    \/ \E i \in 1..Len(jobs) : alarm(i)
    \/ \E i \in 1..Len(jobs) : alarm_failed(i)
    \/ \E i \in 1..Len(jobs) : job_missed(i)
    \/ Later
    \/ Tick
    \/ main

Spec == Init /\ [][Next]_vars

SpecObserved == InitObserved /\ [][Next]_vars

----
\* Properties

Range(f) == {f[i] : i \in DOMAIN f}

\* the JobKey (recipient, due date, category) of a job and of a request
Key(j) == <<j.chat_id, j.due, j.trash_type>>
KeyOf(u) == <<u.chat_id, Due(u), TrashType(u)>>

JobNames == {jobs[i].name : i \in 1..Len(jobs)}
PendingKeys == {Key(jobs[i]) : i \in 1..Len(jobs)}
JobsOfKey(js, k) == {i \in 1..Len(js) : Key(js[i]) = k}

AnyList == \E u \in Updates : show_list(u)

\* the line /list shows for the date and the category of a request
ListEntry(u) == [duedate |-> Strftime(Due(u)), trash_type |-> TrashType(u)]

\* the calendar day before a date
PrevDay(d) ==
    IF d.day > 1 THEN [d EXCEPT !.day = @ - 1]
    ELSE IF d.month > 1
         THEN [year |-> d.year, month |-> d.month - 1, day |-> DaysInMonth(d.year, d.month - 1)]
         ELSE [year |-> d.year - 1, month |-> 12, day |-> 31]

OneJobPerKey == \A i, j \in 1..Len(jobs) : Key(jobs[i]) = Key(jobs[j]) => i = j

\* C1: in every reachable state at most one job is pending per JobKey
\* (recipient, due date, category); when add has scheduled its job exactly one
\* job of that key is pending, also when a job of the key was pending before,
\* and /list shows one line per pending key.
C1_AtMostOneJobPerKey ==
    /\ []OneJobPerKey
    /\ [][add_run_once => Cardinality(JobsOfKey(jobs', KeyOf(upd))) = 1]_vars
    /\ [][AnyList => Len(listing') = Cardinality(PendingKeys)]_vars

\* C1 witness: /add 1.1.2026 bio has found the job of 01.01.2026 bio pending
\* and replaced it
C1_Witness ==
    /\ pc = "idle" /\ reply = "noted" /\ found = 1
    /\ upd.args = <<D1u, bio>>
    /\ Cardinality(JobsOfKey(jobs, KeyOf(upd))) = 1

\* C2 (as claimed): the notification of a job name that was added and never
\* removed is sent at most once, and it has been sent exactly once when no
\* job of that name is pending any more and no handler is running.
C2_SentExactlyOnce ==
    (hist.added /\ ~hist.removed) =>
        /\ hist.sent <= 1
        /\ (pc = "idle" /\ probe \notin JobNames) => hist.sent = 1

\* C3: when add has scheduled its job, a job of its key is pending; and every
\* /list shows, for each valid /add request whose key has a pending job, a
\* line with the due date and the category of that request.
C3_AddedJobIsListed ==
    /\ [][add_run_once =>
            /\ JobsOfKey(jobs', KeyOf(upd)) # {}
            /\ ListEntry(upd) \in Range(ShowList(jobs'))]_vars
    /\ [][AnyList =>
            \A v \in Accepted :
                (v.cmd = "add" /\ KeyOf(v) \in PendingKeys) => ListEntry(v) \in Range(listing')]_vars

\* C3 witness: /list has shown the line of a pending job added as 1.1.2026 bio
C3_Witness ==
    /\ reply = "list"
    /\ \E i \in 1..Len(jobs) : Key(jobs[i]) = <<1, Strptime(D1u), bio>>
    /\ [duedate |-> <<"0", "1", "\\", ".", "0", "1", "\\", ".", "2", "0", "2", "6">>,
        trash_type |-> bio] \in Range(listing)

\* C4: /remove of a key that has a pending job goes on to remove it; when the
\* job is still pending at the removal, the reply is the success reply and no
\* job of the key is pending afterwards; and as long as the key is not added
\* again no job of it is pending and every line of a /list is the line of a
\* job of another name.
C4_RemoveOfPendingJob ==
    /\ [](hist.cancelled => probe \notin JobNames)
    /\ [][\A u \in Accepted :
            (remove_begin(u) /\ KeyOf(u) \in PendingKeys) => pc' = "remove_removal"]_vars
    /\ [][(remove_job /\ Cardinality(JobsByName(jobs, Name[upd])) >= found) =>
            /\ reply' = "removed"
            /\ JobsOfKey(jobs', KeyOf(upd)) = {}]_vars
    /\ [][(AnyList /\ hist.cancelled) =>
            Len(listing') = Cardinality({i \in 1..Len(jobs) : jobs[i].name # probe})]_vars

\* C4 witness: a job was removed with the success reply, and a later /list
\* shows the jobs that are left
C4_Witness ==
    /\ hist.cancelled
    /\ reply = "list"
    /\ listing # <<>>

\* C5: /remove of a key without a pending job replies that nothing could be
\* removed, ends the handler without an error, and leaves the jobs as they were.
C5_RemoveOfAbsentJob ==
    [][\A u \in Accepted :
        (remove_begin(u) /\ KeyOf(u) \notin PendingKeys) =>
            /\ reply' = "not_removed"
            /\ pc' = "idle"
            /\ jobs' = jobs]_vars

\* C5 witness: /remove found nothing to remove while other jobs were pending
C5_Witness ==
    /\ upd.cmd = "remove"
    /\ reply = "not_removed"
    /\ pc = "idle"
    /\ jobs # <<>>

FourTokens == {bio, rest, papier, plastik}

WellFormed(args) == Len(args) = 2 /\ ~StrptimeFails(args[1]) /\ args[2] \in FourTokens

RejectionReplies == {"wrong_input", "wrong_date", "invalid_type"}

\* C6: /add and /remove go past their checks exactly when there are two
\* arguments, the date parses and the category is one of bio, rest, papier,
\* plastik; otherwise the command is rejected, the handler ends, and the jobs
\* with their run times are unchanged.
C6_InvalidInputRejected ==
    [][\A u \in Updates :
        (add_begin(u) \/ remove_begin(u)) =>
            IF WellFormed(u.args)
            THEN reply' \notin RejectionReplies
            ELSE /\ reply' \in RejectionReplies
                 /\ pc' = "idle"
                 /\ jobs' = jobs]_vars

\* C6 witness: a command with the category Bio was rejected while jobs were pending
C6_Witness ==
    /\ Len(upd.args) = 2 /\ upd.args[2] = Bio
    /\ reply = "invalid_type"
    /\ pc = "idle"
    /\ jobs # <<>>

\* the literal zero-padded form dd.mm.yyyy
ZeroPadded(s) ==
    /\ Len(s) = 10
    /\ s[3] = "." /\ s[6] = "."
    /\ \A i \in {1, 2, 4, 5, 7, 8, 9, 10} : IsDigit(s[i])

\* C7 (as claimed): /add with a date that is not in the zero-padded form
\* dd.mm.yyyy is rejected as a wrong date and changes no job.
C7_UnpaddedDateRejected ==
    [][\A u \in Updates :
        (add_begin(u) /\ Len(u.args) = 2 /\ ~ZeroPadded(u.args[1])) =>
            /\ reply' = "wrong_date"
            /\ pc' = "idle"
            /\ jobs' = jobs]_vars

\* C7 (amended): /add with a date that strptime does not accept (2026-01-01,
\* 31.02.2026) is rejected as a wrong date and changes no job; the date
\* 1.1.2026 is accepted as the first of January 2026, the date of 01.01.2026.
C7_UnparsedDateRejected ==
    /\ [][\A u \in Updates :
            (add_begin(u) /\ Len(u.args) = 2 /\ u.args[1] \in {DBadFormat, DBadDay}) =>
                /\ reply' = "wrong_date"
                /\ pc' = "idle"
                /\ jobs' = jobs]_vars
    /\ [][(add_run_once /\ upd.args[1] = D1u) =>
            \E i \in 1..Len(jobs') :
                /\ jobs'[i].due = [year |-> 2026, month |-> 1, day |-> 1]
                /\ jobs'[i].due = Strptime(D1)]_vars

\* C7 witness: 31.02.2026 was rejected while a job added as 1.1.2026 is pending
C7_Witness ==
    /\ upd.cmd = "add" /\ upd.args[1] = DBadDay
    /\ reply = "wrong_date"
    /\ \E i \in 1..Len(jobs) : jobs[i].due = [year |-> 2026, month |-> 1, day |-> 1]

\* C8: alarm never sends the notification of a job name that /remove has
\* removed and that was not added again since.
C8_CancelledNeverFires ==
    [][\A i \in 1..Len(jobs) :
        alarm(i) => ~(jobs[i].name = probe /\ hist.cancelled)]_vars

\* C8 witness: /remove has removed the job before its run time
C8_Witness ==
    /\ hist.cancelled
    /\ hist.sent = 0
    /\ reply = "removed" /\ Name[upd] = probe
    /\ \E u \in Accepted : Name[u] = probe /\ now < Scheduled[u].run_at

\* C9 (as claimed): a restart keeps every pending job with its run time.
C9_RestartKeepsJobs == [][main => jobs' = jobs]_vars

\* C10: the run time of every pending job is the midnight of the calendar day
\* before its due date, and alarm sends no notification while the clock is
\* before that.
C10_FiresOneDayBefore ==
    /\ [](\A i \in 1..Len(jobs) : jobs[i].run_at = ToOrdinal(PrevDay(jobs[i].due)))
    /\ [][add_run_once =>
            \E i \in 1..Len(jobs') :
                jobs'[i].name = Name[upd] /\ jobs'[i].run_at = ToOrdinal(PrevDay(Due(upd)))]_vars
    /\ [][\A i \in 1..Len(jobs) :
            alarm(i) => ToOrdinal(PrevDay(jobs[i].due)) <= now]_vars

\* C10 witness: on 31.12.2025 the notification of a job due on 01.01.2026 was sent
C10_Witness ==
    /\ msg # NoMsg
    /\ now = ToOrdinal([year |-> 2025, month |-> 12, day |-> 31])

\* C11 (as claimed): a job whose run time (the day before the due date) is
\* already past when it is added is not skipped: when the scheduler takes the
\* job from its queue it calls alarm, no job is dropped as missed.
C11_PastJobNotSkipped ==
    [][\A i \in 1..Len(jobs) : ~job_missed(i)]_vars

\* C12 (as claimed): when the job of a key fires between the lookup and the
\* removal of a /remove of that key, the notification is sent and /remove
\* reports that nothing was removed; when the job is still pending, /remove
\* removes it and reports the removal.
C12_RemoveOrFire ==
    [][remove_job =>
        IF Name[upd] \in JobNames
        THEN reply' = "removed" /\ Name[upd] \notin {jobs'[i].name : i \in 1..Len(jobs')}
        ELSE msg = Notification(Scheduled[upd]) => reply' = "not_removed"]_vars

\* the date a line of /list shows ("dd\.mm\.yyyy")
LineDate(line) ==
    [year |-> IntOf(SubSeq(line.duedate, 9, 12)),
     month |-> IntOf(SubSeq(line.duedate, 5, 6)),
     day |-> IntOf(SubSeq(line.duedate, 1, 2))]

\* C13: /list answers without error with one line per pending job, every
\* pending job has its line, the lines are in ascending order of their due
\* dates whatever the order in which the jobs were added, and there is no line
\* when no job is pending.
C13_ListSortedByDue ==
    [][AnyList =>
        /\ reply' = "list"
        /\ Len(listing') = Len(jobs)
        /\ \A i \in 1..Len(jobs) :
                \E k \in 1..Len(listing') :
                    /\ LineDate(listing'[k]) = jobs[i].due
                    /\ listing'[k].trash_type = jobs[i].trash_type
        /\ \A i, k \in 1..Len(listing') :
                i < k => ToOrdinal(LineDate(listing'[i])) <= ToOrdinal(LineDate(listing'[k]))
        /\ (jobs = <<>> => listing' = <<>>)]_vars

\* C13 witness: /list has shown two jobs of different due dates
C13_Witness ==
    /\ pc = "idle" /\ reply = "list"
    /\ Len(listing) = 2
    /\ ToOrdinal(LineDate(listing[1])) < ToOrdinal(LineDate(listing[2]))

\* C14 (as claimed): when send_message fails in alarm the job is not dropped:
\* after the failed attempt, which is the first one for the job, the job is
\* still in the queue for another attempt.
C14_FailedDeliveryRetried ==
    [][\A i \in 1..Len(jobs) :
        alarm_failed(i) => \E k \in 1..Len(jobs') : jobs'[k] = jobs[i]]_vars

JobNamesNext == {jobs'[i].name : i \in 1..Len(jobs')}

\* C15: the queue holds pending jobs only. The job whose notification alarm
\* sends, and the job /remove removes, is out of the queue with that step; a
\* job name that is not in the queue comes into it only by the scheduling step
\* of an /add of its key, so a job that has fired or was removed never fires
\* again and is not armed again without a new /add; and as long as it is out
\* of the queue /remove of its key answers that nothing was removed and
\* /list shows the pending jobs and no other line.
C15_OnlyPendingJobsStored ==
    /\ [][\A i \in 1..Len(jobs) :
            alarm(i) => (jobs[i].name \notin JobNamesNext /\ Len(jobs') = Len(jobs) - 1)]_vars
    /\ [][(remove_job /\ reply' = "removed") => Name[upd] \notin JobNamesNext]_vars
    /\ [][\A n \in JobNamesNext \ JobNames : add_run_once /\ Name[upd] = n]_vars
    /\ [][\A u \in Accepted :
            (Name[u] \notin JobNames /\ remove_begin(u))
                => (reply' = "not_removed" /\ jobs' = jobs)]_vars
    /\ [][AnyList =>
            /\ Len(listing') = Len(jobs)
            /\ \A k \in 1..Len(listing') :
                    \E i \in 1..Len(jobs) :
                        /\ listing'[k].duedate = Strftime(jobs[i].due)
                        /\ listing'[k].trash_type = jobs[i].trash_type]_vars

\* C15 witness: on 31.12.2025 the notification of the job due on 01.01.2026
\* was sent, the queue is empty, and a later /remove of its key has answered
\* that nothing was removed
C15_Witness ==
    /\ pc = "idle" /\ reply = "not_removed"
    /\ upd.cmd = "remove" /\ upd \in Accepted
    /\ msg = Notification(Scheduled[upd])
    /\ Scheduled[upd].run_at = now
    /\ jobs = <<>>

\* C16: every notification alarm sends goes to the chat of the /add that
\* scheduled the job and names the trash type of that /add, and alarm sends a
\* notification only for a job name that an /add has scheduled.
C16_NotificationOfTheAdd ==
    /\ [](\A i \in 1..Len(jobs) :
            \E u \in Accepted : u.cmd = "add" /\ jobs[i] = Scheduled[u])
    /\ [][\A i \in 1..Len(jobs) :
            (jobs[i].name = probe /\ alarm(i)) =>
                /\ hist.added
                /\ \E u \in Accepted :
                    /\ u.cmd = "add" /\ Name[u] = probe
                    /\ msg' = [chat_id |-> u.chat_id, trash_type |-> u.args[2]]
                /\ \A u \in Accepted :
                    Name[u] = probe =>
                        msg' = [chat_id |-> u.chat_id, trash_type |-> u.args[2]]]_vars
    /\ [](hist.sent > 0 => hist.added)

\* C16 witness: the notification of the job that chat 12 added was sent to
\* chat 12 while the update handled last came from chat 1
C16_Witness ==
    /\ hist.sent = 1
    /\ \E u \in Accepted : u.chat_id = 12 /\ Name[u] = probe
    /\ msg = [chat_id |-> 12, trash_type |-> bio]
    /\ upd.chat_id = 1

\* keys that differ in one digit of the chat, in the sign, in the date or in
\* the trash type
SomeKeys ==
    {<<c, d, t>> :
        c \in {1, 12, 120, 2, -1, -12},
        d \in {[year |-> 2026, month |-> 1, day |-> 1], [year |-> 2026, month |-> 1, day |-> 11],
               [year |-> 2026, month |-> 11, day |-> 1], [year |-> 202, month |-> 6, day |-> 1],
               [year |-> 26, month |-> 1, day |-> 1], [year |-> 2025, month |-> 12, day |-> 31]},
        t \in trashtypes}

BuildJobIdInjective ==
    \A k1, k2 \in SomeKeys :
        build_job_id(k1[1], k1[2], k1[3]) = build_job_id(k2[1], k2[2], k2[3]) => k1 = k2

\* the jobs of every key but k, in the order of the queue
OtherJobs(js, k) == SelectSeq(js, LAMBDA j : Key(j) # k)

\* a step of add or of remove
HandlerStep ==
    \/ \E u \in Updates : add_begin(u) \/ remove_begin(u)
    \/ add_remove_old
    \/ add_reply_failed
    \/ add_run_once
    \/ remove_job

\* C17: keys that differ in the chat, the due date or the trash type have
\* different job names, and no step of an /add or a /remove of a key removes,
\* replaces or changes a pending job of another key.
C17_OtherKeysUntouched ==
    /\ []BuildJobIdInjective
    /\ [](\A u, v \in Accepted : Name[u] = Name[v] => KeyOf(u) = KeyOf(v))
    /\ [][(upd' \in Accepted /\ HandlerStep) =>
            OtherJobs(jobs', KeyOf(upd')) = OtherJobs(jobs, KeyOf(upd'))]_vars

\* C17 witness: /add of a key has replaced the pending job of that key while
\* the job of chat 12 for the same date and trash type stayed in the queue
C17_Witness ==
    /\ pc = "idle" /\ reply = "noted" /\ found = 1
    /\ upd.chat_id = 1
    /\ Len(jobs) = 2
    /\ \E i \in 1..2 :
        /\ jobs[i].chat_id = 12
        /\ jobs[i].due = Due(upd)
        /\ jobs[i].trash_type = TrashType(upd)

\* C18 (as claimed): when /add has removed the pending job of its key and the
\* reply to the user then fails, the key still has a pending job afterwards.
C18_ReplaceKeepsAJob ==
    [][(found > 0 /\ add_reply_failed) => Name[upd] \in JobNamesNext]_vars

\* the jobs that a chat has added, in the order of the queue
JobsOfChat(js, chat_id) == SelectSeq(js, LAMBDA j : j.chat_id = chat_id)

\* C19 (as claimed): /list of a chat shows the jobs of that chat only, so its
\* lines are the same whatever jobs other chats have added.
C19_ListOfOwnJobsOnly ==
    [][\A u \in Updates :
        show_list(u) => listing' = ShowList(JobsOfChat(jobs, u.chat_id))]_vars

====
